---- MODULE Spec2Model ----
(***************************************************************************)
(* Mocker (Yuddhaa/mocker, main.go): a CLI that reads a JSON configuration *)
(* and serves the configured routes through a chi router.                  *)
(*                                                                         *)
(* Representation.                                                         *)
(*  - A path is the sequence of its "/"-introduced segments:               *)
(*      "/users/{id}" is <<"users", "{id}">>, "/users/" is <<"users", "">>,*)
(*      "/" is <<"">> and the empty string is <<>>.                        *)
(*  - A pattern segment is a literal, a parameter {name}, a parameter with *)
(*    a regexp {name:regexp}, a literal followed by a parameter            *)
(*    (user-{id}), the catch-all *, or a malformed parameter.              *)
(*  - A JSON body is the Go value json.Unmarshal stores in an `any`.       *)
(*  - The router is the set of endpoints of chi's routing tree: one per    *)
(*    (segment shape, method), holding the route the handler captured.     *)
(***************************************************************************)
EXTENDS Integers, Sequences, FiniteSets, TLC

VARIABLES
    pc,        \* position of main: "flagParse", "flags", "unmarshal", "register", "listen", "serving", "exited"
    args,      \* the command line, as flag.Parse sees it
    exit,      \* process exit status: "running", "0", "1", "2"
    fileRead,  \* os.ReadFile(*path) has been called
    input,     \* input.Routes after json.Unmarshal
    idx,       \* number of routes the registration loop has handled
    router,    \* endpoints of the chi router
    listener,  \* "unopened", "open", "closed"
    req,       \* the request observed: the last one the server took up
    resp,      \* what its client has received
    called,    \* the route whose handler ran for it ("... was called")
    handler,   \* the goroutine serving it: "idle" (none, or returned), "running"
    binary,    \* the file at os.Executable(): "old", "new", "removed"
    tmpFile,   \* the file mocker_new: "absent", "partial", "complete"
    url,       \* the release asset updateMocker asked for
    asked,     \* the answers read from the prompts
    sudo,      \* the sudo command run: "", "mv", "rm"
    calls      \* the platform and the outcome of each system call the flow made

\* The state of the server, and the state of the update and uninstall flows.
server == <<fileRead, input, idx, router, listener, req, resp, called, handler>>
disk == <<binary, tmpFile, url, asked, sudo, calls>>

vars == <<pc, args, exit, server, disk>>

-----------------------------------------------------------------------------
(* Bounds *)

\* Longest list of routes in a configuration file.
MaxRoutes == 2

-----------------------------------------------------------------------------
(* Go values of a response body and their JSON encoding *)

Null == [kind |-> "null", s |-> ""]
Str(s) == [kind |-> "string", s |-> s]

\* json.Marshal(payload): the JSON text, or an error (for a value
\* encoding/json rejects; json.Unmarshal stores none in an `any`). A string is
\* quoted (none of the strings in play holds a character that is escaped).
Marshal(payload) ==
    CASE payload.kind = "null" -> [ok |-> TRUE, text |-> "null"]
      [] payload.kind = "string" -> [ok |-> TRUE, text |-> "\"" \o payload.s \o "\""]
      [] OTHER -> [ok |-> FALSE, text |-> ""]

-----------------------------------------------------------------------------
(* Routes of the configuration: routesType *)

Route(m, p, st, b) == [method |-> m, path |-> p, status |-> st, body |-> b]

\* The routes configurations are drawn from.
RouteSpecs ==
    { Route("GET",  <<"users">>,          200, Str("ok")),
      Route("POST", <<"users">>,          201, Null),
      Route("get",  <<"users", "{id}">>,  200, Str("{id}")),
      Route("GET",  <<"users", "me">>,    202, Str("me")),
      Route("GET",  <<"users", "{x}">>,   203, Null),
      Route("GET",  <<"users", "">>,      200, Str("slash")),
      Route("GET",  <<"gone">>,           204, Null),
      Route("GET",  <<"zero">>,           0,   Null),
      Route("GET",  <<"files", "*">>,     200, Str("file")),
      Route("GET",  <<"users", "{n:[0-9]+}">>, 200, Str("n")),
      Route("GET",  <<"users", "user-{id}">>,  200, Str("u")),
      Route("GET",  <<"users", "{n:[0-9]+}", "me">>, 200, Str("nm")),
      Route("FOO",  <<"users">>,          200, Null),
      Route("GET",  <<>>,                 200, Null),
      Route("GET",  <<"a", "{x">>,        200, Null),
      Route("GET",  <<"a", "*", "b">>,    200, Null),
      Route("GET",  <<"a", "{n:[}">>,     200, Null),
      Route("GET",  <<"{id}", "{id}">>,   200, Null) }

\* Every value input.Routes can take within the bound.
Configs == UNION { [1..n -> RouteSpecs] : n \in 0..MaxRoutes }

-----------------------------------------------------------------------------
(* The command line *)

Args ==
    [ uninstall : BOOLEAN, update : BOOLEAN, help : BOOLEAN, version : BOOLEAN,
      download : {"", "example.json"},
      path : {"./example.json", "cfg.json"},
      download_verison : {"", "latest", "v1.1.0"},
      download_version : {"", "v1.1.0"} ]

NoReq == [method |-> "", path |-> <<>>]
NoRoute == Route("", <<>>, 0, Null)
NoUrl == [release |-> "", asset |-> ""]
NoResp == [sent |-> FALSE, status |-> 0, informational |-> 0, body |-> "",
           contentType |-> "", allow |-> {}]
\* No system call made yet; "" stands for a call that was not made.
NoCalls == [goos |-> "", get |-> "", create |-> "", copy |-> "", exe |-> "",
            rename |-> "", remove |-> "", run |-> ""]

Init ==
    /\ pc = "flagParse"
    /\ args \in Args
    /\ exit = "running"
    /\ fileRead = FALSE
    /\ input = <<>>
    /\ idx = 0
    /\ router = {}
    /\ listener = "unopened"
    /\ req = NoReq
    /\ resp = NoResp
    /\ called = NoRoute
    /\ handler = "idle"
    /\ binary = "old"
    /\ tmpFile = "absent"
    /\ url = NoUrl
    /\ asked = <<>>
    /\ sudo = ""
    /\ calls = NoCalls

\* flag.Parse(): main defines "download_verison"; an argument that names a
\* flag main does not define, such as --download_version, ends the process
\* with status 2 (flag.ExitOnError).
FlagParse ==
    /\ pc = "flagParse"
    /\ IF args.download_version # ""
         THEN pc' = "exited" /\ exit' = "2"
         ELSE pc' = "flags" /\ exit' = exit
    /\ UNCHANGED <<args, server, disk>>

-----------------------------------------------------------------------------
(* The chi router: router.Method(...) at registration, router.ServeHTTP per  *)
(* request (main.go hands the router to http.ListenAndServe).                *)

\* strings.ToUpper on the method names in play.
ToUpper(s) ==
    CASE s = "get" -> "GET"
      [] s = "post" -> "POST"
      [] s = "foo" -> "FOO"
      [] OTHER -> s

\* The methods chi's method table knows; any other is refused.
ChiMethods ==
    {"CONNECT", "DELETE", "GET", "HEAD", "OPTIONS", "PATCH", "POST", "PUT", "TRACE"}

\* A pattern segment of the form {name}.
IsParam(seg) == seg \in {"{id}", "{x}"}

\* A pattern segment of the form {name:regexp}, and the texts in play its
\* regexp matches.
IsRegexp(seg) == seg \in {"{n:[0-9]+}"}
RegexpMatches(text) == text \in {"7"}

\* A pattern segment made of a literal and a parameter after it, and the
\* texts in play that begin with the literal and go on.
IsPrefixed(seg) == seg \in {"user-{id}"}
PrefixMatches(text) == text \in {"user-7"}

\* The name of the parameter of a segment that has one.
ParamKey(seg) ==
    CASE seg \in {"{id}", "user-{id}"} -> "id"
      [] seg = "{x}" -> "x"
      [] seg = "{n:[0-9]+}" -> "n"
      [] OTHER -> ""

\* A pattern segment that opens a parameter and does not close it.
IsUnclosed(seg) == seg \in {"{x"}

\* A pattern segment {name:regexp} whose regexp does not compile.
IsBadRegexp(seg) == seg \in {"{n:[}"}

\* The place of a pattern in the routing tree: parameter names do not count,
\* the regexp of a parameter does. The catch-all stays "*".
Shape(path) ==
    [i \in 1..Len(path) |->
        CASE IsParam(path[i]) -> "{}"
          [] IsRegexp(path[i]) -> "{:[0-9]+}"
          [] IsPrefixed(path[i]) -> "user-{}"
          [] OTHER -> path[i]]

\* Patterns chi panics on: one that does not begin with "/", a "{" with no
\* closing "}", a "*" that is not the end of the pattern, a regexp that does
\* not compile, a parameter named twice.
PatternPanics(path) ==
    \/ path = <<>>
    \/ \E i \in 1..Len(path) : IsUnclosed(path[i])
    \/ \E i \in 1..Len(path) : path[i] = "*" /\ i < Len(path)
    \/ \E i \in 1..Len(path) : IsBadRegexp(path[i])
    \/ \E i, j \in 1..Len(path) :
         i < j /\ ParamKey(path[i]) # "" /\ ParamKey(path[i]) = ParamKey(path[j])

\* A tree that keeps the endpoint already there.
InsertRoute_KeepFirst(r, m, v) ==
    IF \E e \in r : e.shape = Shape(v.path) /\ e.method = m
      THEN r
      ELSE r \cup { [shape |-> Shape(v.path), method |-> m, v |-> v] }

\* The endpoint of (shape, method) is set, replacing the one already there.
InsertRoute(r, m, v) ==
    { e \in r : ~(e.shape = Shape(v.path) /\ e.method = m) }
        \cup { [shape |-> Shape(v.path), method |-> m, v |-> v] }

\* A router that registers whatever it is given.
Method_NoPanic(r, v) ==
    [panic |-> FALSE, router |-> InsertRoute(r, ToUpper(v.method), v)]

\* router.Method(strings.ToUpper(v.Method), v.Path, handler capturing v)
Method(r, v) ==
    IF ToUpper(v.method) \notin ChiMethods \/ PatternPanics(v.path)
      THEN [panic |-> TRUE, router |-> r]
      ELSE [panic |-> FALSE, router |-> InsertRoute(r, ToUpper(v.method), v)]

\* The segments of a shape before its catch-all match the first segments of
\* the path: a parameter takes any text up to the next "/", and not the empty
\* text at the end of the path; a parameter with a regexp takes a non-empty
\* text its regexp matches, and the empty text before a "/": findRoute skips
\* the regexp node there (p == 0) and then searches the last regexp node it
\* tried, the path unconsumed; a literal with a parameter after it takes a
\* text that begins with the literal.
SegmentsMatch(shape, path, n) ==
    \A i \in 1..n :
        CASE shape[i] = "{}" -> path[i] # "" \/ i < Len(path)
          [] shape[i] = "{:[0-9]+}" ->
                 RegexpMatches(path[i]) \/ (path[i] = "" /\ i < Len(path))
          [] shape[i] = "user-{}" -> PrefixMatches(path[i])
          [] OTHER -> shape[i] = path[i]

\* A matcher that drops the empty segment a trailing slash leaves.
ShapeMatches_TrimSlash(shape, path) ==
    LET p == IF Len(path) > 1 /\ path[Len(path)] = ""
               THEN SubSeq(path, 1, Len(path) - 1) ELSE path
    IN IF shape # <<>> /\ shape[Len(shape)] = "*"
         THEN Len(p) >= Len(shape) /\ SegmentsMatch(shape, p, Len(shape) - 1)
         ELSE Len(shape) = Len(p) /\ SegmentsMatch(shape, p, Len(p))

\* A shape matches a request path segment by segment; a catch-all at its end
\* takes the rest of the path, whatever it is: empty, several segments, a
\* trailing slash.
ShapeMatches(shape, path) ==
    IF shape # <<>> /\ shape[Len(shape)] = "*"
      THEN Len(path) >= Len(shape) /\ SegmentsMatch(shape, path, Len(shape) - 1)
      ELSE Len(shape) = Len(path) /\ SegmentsMatch(shape, path, Len(path))

\* The order in which the children of a node are tried: static (a literal
\* before a literal with a parameter after it), regexp, parameter, catch-all.
Rank(seg) ==
    CASE seg = "user-{}" -> 1
      [] seg = "{:[0-9]+}" -> 2
      [] seg = "{}" -> 3
      [] seg = "*" -> 4
      [] OTHER -> 0

\* A search that tries the parameter child first.
Before_ParamFirst(s, t) ==
    \E i \in 1..Len(s) :
        /\ i <= Len(t)
        /\ \A j \in 1..(i - 1) : s[j] = t[j]
        /\ s[i] # t[i]
        /\ (IF s[i] = "{}" THEN 0 ELSE IF s[i] = "*" THEN 5 ELSE 1)
              < (IF t[i] = "{}" THEN 0 ELSE IF t[i] = "*" THEN 5 ELSE 1)

\* The tree is searched depth first: s is tried before t when, where they
\* first differ, the child of s comes first.
Before(s, t) ==
    \E i \in 1..Len(s) :
        /\ i <= Len(t)
        /\ \A j \in 1..(i - 1) : s[j] = t[j]
        /\ s[i] # t[i]
        /\ Rank(s[i]) < Rank(t[i])

\* Endpoints whose shape matches the path, of any method.
PathMatching(r, path) == { e \in r : ShapeMatches(e.shape, path) }

\* tree.FindRoute: the first endpoint of the method in search order.
FindRoute(r, m, path) ==
    LET c == { e \in PathMatching(r, path) : e.method = m }
    IN { e \in c : \A f \in c : f = e \/ Before(e.shape, f.shape) }

-----------------------------------------------------------------------------
(* The handler of a route and respondWithJSON *)

Response(st, info, b, ct, al) ==
    [sent |-> TRUE, status |-> st, informational |-> info, body |-> b,
     contentType |-> ct, allow |-> al]

\* net/http: a response of this status carries no body, and Write refuses one.
BodyAllowed(code) == ~(code \in 100..199 \/ code = 204 \/ code = 304)

\* respondWithJSON(w, code, payload): the error it returns, whether it
\* panics, and what the client gets.
respondWithJSON(code, payload) ==
    LET j == Marshal(payload) IN
    IF ~j.ok
      THEN [err |-> TRUE, panic |-> FALSE, resp |-> NoResp]
    ELSE IF code < 100 \/ code > 999
      \* w.WriteHeader panics on an invalid code; the server recovers and
      \* drops the connection
      THEN [err |-> FALSE, panic |-> TRUE, resp |-> NoResp]
    ELSE IF code \in 100..199 /\ code # 101
      \* an informational header goes out, then Write sends the body under 200
      THEN [err |-> FALSE, panic |-> FALSE,
            resp |-> Response(200, code, j.text, "application/json", {})]
    ELSE IF ~BodyAllowed(code)
      \* w.Write returns http.ErrBodyNotAllowed
      THEN [err |-> TRUE, panic |-> FALSE, resp |-> NoResp]
    ELSE [err |-> FALSE, panic |-> FALSE,
          resp |-> Response(code, 0, j.text, "application/json", {})]

\* The handler main registers for route v: log.Fatalf when respondWithJSON
\* returns an error.
Handler(v) ==
    LET r == respondWithJSON(v.status, v.body)
    IN [fatal |-> r.err, resp |-> r.resp, called |-> v]

\* What chi answers by itself.
NotFound ==
    [fatal |-> FALSE, called |-> NoRoute,
     resp |-> Response(404, 0, "404 page not found\n", "text/plain; charset=utf-8", {})]
MethodNotAllowed(allowed) ==
    [fatal |-> FALSE, called |-> NoRoute, resp |-> Response(405, 0, "", "", allowed)]

\* mux.routeHTTP: a method chi does not know is refused; else the tree is
\* searched, and a path that matched under other methods only is refused with
\* those methods in Allow.
routeHTTP(r, m, path) ==
    IF m \notin ChiMethods
      THEN MethodNotAllowed({})
    ELSE IF FindRoute(r, m, path) # {}
      THEN Handler((CHOOSE e \in FindRoute(r, m, path) : TRUE).v)
    ELSE IF PathMatching(r, path) # {}
      THEN MethodNotAllowed({ e.method : e \in PathMatching(r, path) })
    ELSE NotFound

\* The server sends no body in answer to a HEAD request.
Sent(m, o) ==
    IF m = "HEAD" /\ o.resp.sent THEN [o EXCEPT !.resp.body = ""] ELSE o

\* A router that uppercases the request method before routing.
ServeHTTP_Upper(r, q) ==
    IF r = {}
      THEN Sent(q.method, NotFound)
      ELSE Sent(q.method, routeHTTP(r, ToUpper(q.method), q.path))

\* router.ServeHTTP for one request. A router no route was registered on has
\* no handler (mx.handler == nil) and answers every request, whatever its
\* method, as not found; else the request is routed by r.Method and
\* r.URL.Path as they came.
ServeHTTP(r, q) ==
    IF r = {}
      THEN Sent(q.method, NotFound)
      ELSE Sent(q.method, routeHTTP(r, q.method, q.path))

-----------------------------------------------------------------------------
(* Requests *)

Request(m, p) == [method |-> m, path |-> p]

ReqPaths ==
    { <<"users">>, <<"users", "">>, <<"users", "me">>, <<"users", "7">>,
      <<"users", "user-7">>, <<"gone">>, <<"zero">>, <<"nope">>,
      <<"files", "a">>, <<"files", "a", "">>, <<"users", "", "me">> }

\* The requests drawn: GET on every path, and the other methods ("get" is a
\* method as a client may send it) on some.
Requests ==
    { Request("GET", p) : p \in ReqPaths }
        \cup { Request("POST", p) :
                  p \in { <<"users">>, <<"users", "7">>, <<"files", "a">>, <<"nope">> } }
        \cup { Request("get", p) : p \in { <<"users">>, <<"nope">> } }

-----------------------------------------------------------------------------
(* main *)

\* main with the --download check lost.
ShortCircuit_NoDownload(a) ==
    a.uninstall \/ a.update \/ a.help \/ a.version

ShortCircuit(a) ==
    a.uninstall \/ a.update \/ a.help \/ a.version \/ a.download # ""

Finish(code) ==
    /\ pc' = "exited"
    /\ exit' = code

\* strings.ToLower on the answers in play.
ToLower(s) ==
    CASE s = "Y" -> "y"
      [] s = "Yes" -> "yes"
      [] OTHER -> s

\* What a prompt can read.
Answers == {"y", "Yes", "n", ""}

\* A prompt whose default, an empty answer, is yes.
Yes_Default(answer) == ToLower(answer) \in {"y", "yes", ""}

\* response != "y" && response != "yes", after strings.ToLower
Yes(answer) == ToLower(answer) \in {"y", "yes"}

Goos == {"linux", "darwin", "windows", "plan9"}
Goarch == {"arm64", "amd64"}

\* What the system answers to uninstallMocker: os.Executable, the two
\* prompts, os.Remove, sudo rm.
UninstallEnv ==
    [ goos : Goos, exe : BOOLEAN, answer : Answers,
      remove : {"ok", "permission", "error"}, confirm : Answers, sudoOk : BOOLEAN ]

Flow(b, t, u, a, c, k) ==
    [binary |-> b, tmpFile |-> t, url |-> u, asked |-> a, sudo |-> c, calls |-> k]

\* The outcome of a call that succeeds or fails.
Outcome(ok) == IF ok THEN "ok" ELSE "error"

\* The first n system calls of uninstallMocker, with what they returned:
\* os.Executable, os.Remove, sudo rm.
UninstallCalls(e, n) ==
    [NoCalls EXCEPT !.goos = e.goos,
                    !.exe = IF n >= 1 THEN Outcome(e.exe) ELSE "",
                    !.remove = IF n >= 2 THEN e.remove ELSE "",
                    !.run = IF n >= 3 THEN Outcome(e.sudoOk) ELSE ""]

\* uninstallMocker(): what it leaves behind; it always returns.
uninstallMocker(e) ==
    LET Out(b, a, c, n) == Flow(b, "absent", NoUrl, a, c, UninstallCalls(e, n)) IN
    IF ~e.exe
      THEN Out("old", <<>>, "", 1)
    ELSE IF ~Yes(e.answer) \/ e.goos = "windows"
      THEN Out("old", <<e.answer>>, "", 1)
    ELSE IF e.remove = "ok"
      THEN Out("removed", <<e.answer>>, "", 2)
    ELSE IF e.remove = "error"
      THEN Out("old", <<e.answer>>, "", 2)
    ELSE IF ~Yes(e.confirm)
      THEN Out("old", <<e.answer, e.confirm>>, "", 2)
    ELSE Out(IF e.sudoOk THEN "removed" ELSE "old", <<e.answer, e.confirm>>, "rm", 3)

\* if *uninstall { uninstallMocker(); return }
Uninstall ==
    /\ pc = "flags"
    /\ args.uninstall
    /\ \E e \in UninstallEnv :
         LET f == uninstallMocker(e) IN
           /\ binary' = f.binary /\ tmpFile' = f.tmpFile /\ url' = f.url
           /\ asked' = f.asked /\ sudo' = f.sudo /\ calls' = f.calls
    /\ Finish("0")
    /\ UNCHANGED <<args, server>>

\* What the system answers to updateMocker: http.Get, os.Create, io.Copy,
\* os.Executable, os.Rename, the prompt, sudo mv.
UpdateEnv ==
    [ goos : Goos, goarch : Goarch, get : {"error", "404", "200"},
      create : BOOLEAN, copy : BOOLEAN, exe : BOOLEAN,
      rename : {"ok", "permission", "error"}, confirm : Answers, sudoOk : BOOLEAN ]

\* The release asset of the platform.
BinaryName(goos, goarch) ==
    CASE goos = "darwin" -> IF goarch = "arm64" THEN "mocker-macos" ELSE "mocker-macos-amd"
      [] goos = "linux" -> "mocker-linux"
      [] OTHER -> "mocker-windows.exe"

\* The download URL: releases/latest/download/<asset>, or
\* releases/download/<version>/<asset>.
Url(version, asset) ==
    IF version = "" \/ version = "latest"
      THEN [release |-> "latest", asset |-> asset]
      ELSE [release |-> version, asset |-> asset]

\* The first n system calls of updateMocker, with what they returned:
\* http.Get, os.Create, io.Copy, os.Executable, os.Rename, sudo mv.
UpdateCalls(e, n) ==
    [NoCalls EXCEPT !.goos = e.goos,
                    !.get = IF n >= 1 THEN e.get ELSE "",
                    !.create = IF n >= 2 THEN Outcome(e.create) ELSE "",
                    !.copy = IF n >= 3 THEN Outcome(e.copy) ELSE "",
                    !.exe = IF n >= 4 THEN Outcome(e.exe) ELSE "",
                    !.rename = IF n >= 5 THEN e.rename ELSE "",
                    !.run = IF n >= 6 THEN Outcome(e.sudoOk) ELSE ""]

\* A build that takes every platform for one where the running binary can be
\* renamed over.
IsWindows_Never(osName) == FALSE

\* if osName == "windows": the running .exe is not replaced in place.
IsWindows(osName) == osName = "windows"

\* updateMocker(version): the exit status (log.Fatalf is "1") and what it
\* leaves behind.
updateMocker(version, e) ==
    LET u == Url(version, BinaryName(e.goos, e.goarch))
        Out(code, b, t, a, c, n) ==
            [exit |-> code, flow |-> Flow(b, t, u, a, c, UpdateCalls(e, n))]
    IN
    IF e.goos \notin {"darwin", "linux", "windows"}
      THEN [exit |-> "1",
            flow |-> Flow("old", "absent", NoUrl, <<>>, "", UpdateCalls(e, 0))]
    ELSE IF e.get # "200"
      THEN Out("1", "old", "absent", <<>>, "", 1)
    ELSE IF ~e.create
      THEN Out("1", "old", "absent", <<>>, "", 2)
    ELSE IF ~e.copy
      THEN Out("1", "old", "partial", <<>>, "", 3)
    ELSE IF ~e.exe
      THEN Out("1", "old", "complete", <<>>, "", 4)
    ELSE IF IsWindows(e.goos)
      THEN Out("0", "old", "complete", <<>>, "", 4)
    ELSE IF e.rename = "ok"
      THEN Out("0", "new", "absent", <<>>, "", 5)
    ELSE IF e.rename = "error"
      THEN Out("1", "old", "complete", <<>>, "", 5)
    ELSE IF ~Yes(e.confirm)
      THEN Out("0", "old", "complete", <<e.confirm>>, "", 5)
    ELSE IF e.sudoOk
      THEN Out("0", "new", "absent", <<e.confirm>>, "mv", 6)
    ELSE Out("1", "old", "absent", <<e.confirm>>, "mv", 6)

\* if *update { updateMocker(version); return }
Update ==
    /\ pc = "flags"
    /\ ~args.uninstall /\ args.update
    /\ \E e \in UpdateEnv :
         LET o == updateMocker(args.download_verison, e) IN
           /\ binary' = o.flow.binary /\ tmpFile' = o.flow.tmpFile
           /\ url' = o.flow.url /\ asked' = o.flow.asked /\ sudo' = o.flow.sudo
           /\ calls' = o.flow.calls
           /\ Finish(o.exit)
    /\ UNCHANGED <<args, server>>

\* if *helpFlag { ...; return }
Help ==
    /\ pc = "flags"
    /\ ~args.uninstall /\ ~args.update /\ args.help
    /\ Finish("0")
    /\ UNCHANGED <<args, server, disk>>

\* if *versionFlag { ...; return }
Version ==
    /\ pc = "flags"
    /\ ~args.uninstall /\ ~args.update /\ ~args.help /\ args.version
    /\ Finish("0")
    /\ UNCHANGED <<args, server, disk>>

\* if *downloadPath != "" { os.WriteFile(...); return }: os.Exit(1) when the
\* write fails
Download ==
    /\ pc = "flags"
    /\ ~args.uninstall /\ ~args.update /\ ~args.help /\ ~args.version
    /\ args.download # ""
    /\ \E code \in {"0", "1"} : Finish(code)
    /\ UNCHANGED <<args, server, disk>>

\* data, err := os.ReadFile(*path): log.Fatalf on an error
ReadFile ==
    /\ pc = "flags"
    /\ ~ShortCircuit(args)
    /\ fileRead' = TRUE
    /\ \E ok \in BOOLEAN :
         IF ok THEN pc' = "unmarshal" /\ exit' = exit
               ELSE Finish("1")
    /\ UNCHANGED <<args, input, idx, router, listener, req, resp, called, handler, disk>>

\* json.Unmarshal(data, &input): log.Fatalf on an error; then the loop over
\* input.Routes begins. Text that is not JSON is refused before anything is
\* stored; a value of the wrong type (a number for "port") is reported after
\* the rest has been decoded, so the process can end with the routes in input.
Unmarshal ==
    /\ pc = "unmarshal"
    /\ \/ \E c \in Configs :
            /\ input' = c
            /\ Finish("1")
       \/ \E c \in Configs :
            /\ input' = c
            /\ pc' = IF Len(c) = 0 THEN "listen" ELSE "register"
            /\ exit' = exit
    /\ UNCHANGED <<args, fileRead, idx, router, listener, req, resp, called, handler, disk>>

\* One pass of `for _, route := range input.Routes`; a panic of router.Method
\* ends the process with status 2.
Register ==
    /\ pc = "register"
    /\ idx < Len(input)
    /\ LET m == Method(router, input[idx + 1]) IN
         IF m.panic
           THEN Finish("2") /\ UNCHANGED <<idx, router>>
           ELSE /\ router' = m.router
                /\ idx' = idx + 1
                /\ pc' = IF idx + 1 = Len(input) THEN "listen" ELSE "register"
                /\ exit' = exit
    /\ UNCHANGED <<args, fileRead, input, listener, req, resp, called, handler, disk>>

\* http.ListenAndServe(":"+input.Port, router): log.Fatal when it cannot bind
Listen ==
    /\ pc = "listen"
    /\ \E bound \in BOOLEAN :
         IF bound THEN pc' = "serving" /\ listener' = "open" /\ exit' = exit
                  ELSE Finish("1") /\ UNCHANGED listener
    /\ UNCHANGED <<args, fileRead, input, idx, router, req, resp, called, handler, disk>>

\* net/http serves each request in a goroutine of its own. The variables req,
\* called, resp and handler follow one request at a time, the observed one;
\* the requests served beside it show in Fatalf.

\* The server takes up a request and calls the router with it: the router
\* finds the route, and its handler prints "... was called".
Serve ==
    /\ pc = "serving"
    /\ handler = "idle"
    /\ \E q \in Requests :
         /\ req' = q
         /\ called' = ServeHTTP(router, q).called
    /\ resp' = NoResp
    /\ handler' = "running"
    /\ UNCHANGED <<pc, args, exit, fileRead, input, idx, router, listener, disk>>

\* The goroutine of the observed request goes on: respondWithJSON in the
\* handler, or the router's own answer; log.Fatalf in the handler ends the
\* process, and the handler does not return.
Respond ==
    /\ pc = "serving"
    /\ handler = "running"
    /\ LET o == ServeHTTP(router, req) IN
         /\ resp' = o.resp
         /\ IF o.fatal
              THEN Finish("1") /\ listener' = "closed" /\ UNCHANGED handler
              ELSE handler' = "idle" /\ UNCHANGED <<pc, exit, listener>>
    /\ UNCHANGED <<args, fileRead, input, idx, router, req, called, disk>>

\* The handler of a request served beside the observed one reaches
\* log.Fatalf: the process ends wherever the observed request is, answered or
\* not.
Fatalf ==
    /\ pc = "serving"
    /\ \E q \in Requests : ServeHTTP(router, q).fatal
    /\ Finish("1")
    /\ listener' = "closed"
    /\ UNCHANGED <<args, fileRead, input, idx, router, req, resp, called, handler, disk>>

Next ==
    \/ FlagParse
    \/ Uninstall
    \/ Update
    \/ Help
    \/ Version
    \/ Download
    \/ ReadFile
    \/ Unmarshal
    \/ Register
    \/ Listen
    \/ Serve
    \/ Respond
    \/ Fatalf

Spec == Init /\ [][Next]_vars

-----------------------------------------------------------------------------
(* Vocabulary of the claims *)

\* One of the flags that end the run early is given.
ExitFlagGiven ==
    \/ args.uninstall \/ args.update \/ args.help \/ args.version
    \/ args.download # ""

Routes == { input[i] : i \in 1..Len(input) }

\* The segment pattern of a configured path, parameter names ignored.
Pattern(path) ==
    [i \in 1..Len(path) |->
        CASE path[i] \in {"{id}", "{x}"} -> "{}"
          [] path[i] = "{n:[0-9]+}" -> "{:[0-9]+}"
          [] path[i] = "user-{id}" -> "user-{}"
          [] OTHER -> path[i]]

\* A route the router refuses: a method chi does not know, a path that does
\* not begin with "/", leaves a "{" unclosed, has a "*" before its end, holds
\* a regexp that does not compile or names a parameter twice.
Refused(v) ==
    \/ ToUpper(v.method) \notin ChiMethods
    \/ v.path = <<>>
    \/ \E i \in 1..Len(v.path) : v.path[i] \in {"{x", "{n:[}"}
    \/ \E i \in 1..(Len(v.path) - 1) : v.path[i] = "*"
    \/ \E i, j \in 1..Len(v.path) :
         /\ i # j
         /\ \/ v.path[i] \in {"{id}", "{x}", "{n:[0-9]+}"} /\ v.path[i] = v.path[j]
            \/ {v.path[i], v.path[j]} = {"{id}", "user-{id}"}

\* The path of the route ends with the catch-all: /prefix/*.
CatchAll(p) == p # <<>> /\ p[Len(p)] = "*"

\* Routes i and j of the configuration have the same uppercased method and
\* the same segment pattern.
SameSlot(i, j) ==
    /\ ToUpper(input[i].method) = ToUpper(input[j].method)
    /\ Pattern(input[i].path) = Pattern(input[j].path)

\* Two different routes of the configuration share a slot.
Conflicting ==
    \E i, j \in 1..Len(input) : i < j /\ SameSlot(i, j) /\ input[i] # input[j]

\* The routes the registration loop has handled.
Registered == { input[i] : i \in 1..idx }

\* The segments the specification's matcher compares: empty ones dropped.
SpecSegs(path) == SelectSeq(path, LAMBDA seg : seg # "")

\* Pattern p matches request path t: as many segments, a literal equal to its
\* segment, a parameter on a non-empty segment.
PatMatch(p, t) ==
    /\ Len(p) = Len(t) /\ Len(p) > 0
    /\ \A i \in 1..Len(p) :
         IF p[i] \in {"{id}", "{x}"} THEN t[i] # "" ELSE p[i] = t[i]

HasParam(p) == \E i \in 1..Len(p) : p[i] \in {"{id}", "{x}"}

\* The segments of a pattern that are not literals.
NotLiteral == {"{}", "{:[0-9]+}", "user-{}", "*"}

\* p is literal and t is not at the first segment where they differ.
MoreLiteral(p, t) ==
    \E k \in 1..Len(p) :
        /\ k <= Len(t)
        /\ \A j \in 1..(k - 1) : Pattern(p)[j] = Pattern(t)[j]
        /\ Pattern(p)[k] \notin NotLiteral /\ Pattern(t)[k] \in NotLiteral

\* The request has the method of route v, as the router registered it, and a
\* path its pattern matches.
Hits(v) == req.method = ToUpper(v.method) /\ PatMatch(v.path, req.path)

\* Pattern p matches request path t as the router matches: PatMatch, a
\* parameter also taking an empty segment that is not the last, a parameter
\* with a regexp taking the segments its regexp matches and an empty segment
\* that is not the last, a literal with a
\* parameter after it the segments that begin with the literal, and a pattern
\* /prefix/* matching every path that goes on after /prefix/.
Matches(p, t) ==
    LET n == IF CatchAll(p) THEN Len(p) - 1 ELSE Len(p)
    IN /\ Len(p) > 0
       /\ IF CatchAll(p) THEN Len(t) > n ELSE Len(t) = n
       /\ \A i \in 1..n :
            CASE p[i] \in {"{id}", "{x}"} -> t[i] # "" \/ i < Len(t)
              [] p[i] = "{n:[0-9]+}" -> t[i] = "7" \/ (t[i] = "" /\ i < Len(t))
              [] p[i] = "user-{id}" -> t[i] = "user-7"
              [] OTHER -> p[i] = t[i]

\* The request has the method of route v, as the router registered it, and a
\* path the router matches with its pattern.
Reaches(v) == req.method = ToUpper(v.method) /\ Matches(v.path, req.path)

\* The response the configuration asks for on route v.
Configured(v) ==
    /\ resp.sent
    /\ resp.status = v.status
    /\ resp.body = Marshal(v.body).text
    /\ resp.contentType = "application/json"

Last(path) == path[Len(path)]

\* The observed request has had its outcome: its goroutine returned, or the
\* process ended.
Done == req # NoReq /\ (handler = "idle" \/ pc = "exited")

\* The goroutine of the observed request ran to its end.
Returned == req # NoReq /\ handler = "idle"

Slash(q) == [q EXCEPT !.path = Append(q.path, "")]

-----------------------------------------------------------------------------
(* C1 *)

\* C1 as stated: for every route of the configuration (status within 100..599),
\* a request whose method and path match it is answered with the configured
\* status, the JSON serialization of the configured body and Content-Type:
\* application/json.
CE_C1 ==
    Done =>
        \A v \in Routes :
            (v.status \in 100..599 /\ Hits(v)) => Configured(v)

-----------------------------------------------------------------------------
(* C2 *)

\* C2 as stated: a request whose path matches at least one route and whose
\* method is that of none of them is answered 405, with the methods of all
\* path-matching routes in Allow and the body {"error":"method not allowed"}.
CE_C2 ==
    Done =>
        LET pm == { v \in Routes : PatMatch(v.path, req.path) } IN
        \/ ~(pm # {} /\ \A v \in pm : ToUpper(v.method) # ToUpper(req.method))
        \/  /\ resp.status = 405
            /\ resp.allow = { ToUpper(v.method) : v \in pm }
            /\ resp.body = "{\"error\":\"method not allowed\"}"

-----------------------------------------------------------------------------
(* C3 *)

\* C3 as stated: a route with a parameter segment is matched by every request
\* of its method with a non-empty segment there, and a request with another
\* number of segments that matches no route is answered 404 with the body
\* {"error":"not found"}.
CE_C3 ==
    Done =>
        \A v \in Routes :
            (HasParam(v.path) /\ req.method = ToUpper(v.method)) =>
                /\ PatMatch(v.path, req.path) => called # NoRoute
                /\ ( /\ Len(SpecSegs(req.path)) # Len(v.path)
                     /\ \A w \in Routes :
                          /\ ~PatMatch(w.path, req.path)
                          /\ ~PatMatch(SpecSegs(w.path), SpecSegs(req.path)) ) =>
                     /\ resp.status = 404
                     /\ resp.body = "{\"error\":\"not found\"}"

-----------------------------------------------------------------------------
(* C4 *)

\* C4 as stated: a request for p and the request for p with a trailing slash
\* appended have the same outcome.
CE_C4 ==
    pc = "serving" =>
        \A q \in { t \in Requests : Last(t.path) # "" } :
            ServeHTTP(router, q) = ServeHTTP(router, Slash(q))

\* C4, amended: matching is trailing-slash-sensitive. A request whose path ends
\* with a slash is matched only by a route whose configured path ends with a
\* slash or with the catch-all *, and a request whose path does not, only by a
\* route whose path does not end with a slash; a catch-all route /prefix/*
\* matches the paths that go on after /prefix/ with and without a trailing
\* slash alike; where no configured path ends with a slash or with *, the
\* request for p with a slash appended is answered 404, whatever the request
\* for p is answered. (The table is the same in every state of a serving
\* process, C9: the second part is stated of the state it starts serving in.)
Thm_C4 ==
    /\ (req # NoReq /\ called # NoRoute) =>
           /\ Last(req.path) = "" => Last(called.path) \in {"", "*"}
           /\ Last(req.path) # "" => Last(called.path) # ""
    /\ (pc = "serving" /\ req = NoReq) =>
         \A q \in { t \in Requests : Last(t.path) # "" } :
                LET a == ServeHTTP(router, q)
                    b == ServeHTTP(router, Slash(q))
                IN /\ a.called # NoRoute => Last(a.called.path) # ""
                   /\ b.called # NoRoute => Last(b.called.path) \in {"", "*"}
                   /\ (a.called # NoRoute /\ CatchAll(a.called.path)) =>
                        b.called # NoRoute
                   /\ ( /\ q.method \in ChiMethods
                        /\ \A v \in Routes : Last(v.path) \notin {"", "*"} ) =>
                        (b.called = NoRoute /\ b.resp.status = 404)

\* GET /users is configured and GET /users/ was answered 404.
Wit_C4 ==
    /\ listener = "open"
    /\ \E v \in Routes : v.method = "GET" /\ v.path = <<"users">>
    /\ req = [method |-> "GET", path |-> <<"users", "">>]
    /\ resp.status = 404 /\ called = NoRoute

-----------------------------------------------------------------------------
(* C5 *)

\* C5 as stated: a route of method m matches a request of method r on its path
\* whenever uppercase(m) = uppercase(r).
CE_C5 ==
    ( /\ Done
      /\ \E v \in Routes :
            /\ ToUpper(v.method) = ToUpper(req.method)
            /\ PatMatch(v.path, req.path) ) => called # NoRoute

\* C5, amended: method matching is case-insensitive on the configuration side
\* only. A route configured with method m is registered under uppercase(m) and
\* matches a request on its path exactly when the request method equals
\* uppercase(m); a request whose method is not upper case ("get") matches no
\* route: the answer it gets, unless the process ends first, is 405 with no
\* Allow header, and 404 from a server with no route at all.
Thm_C5 ==
    req # NoReq =>
        /\ called # NoRoute <=> \E v \in Routes : Reaches(v)
        /\ called # NoRoute => (called \in Routes /\ Reaches(called))
        /\ req.method # ToUpper(req.method) =>
             /\ called = NoRoute
             /\ Returned => resp.sent
             /\ resp.sent =>
                  IF Routes = {}
                    THEN resp.status = 404
                    ELSE resp.status = 405 /\ resp.allow = {}

\* A route configured as "get" has answered a request sent with "GET".
Wit_C5 ==
    /\ req # NoReq /\ req.method = "GET"
    /\ called # NoRoute /\ called.method = "get"
    /\ Configured(called)

-----------------------------------------------------------------------------
(* C6 *)

\* C6 as stated: of two routes of the same method and distinct patterns that
\* both match the request path, the earlier in the configuration answers.
CE_C6 ==
    Done =>
        \A i, j \in 1..Len(input) :
            ( /\ i < j
              /\ Hits(input[i]) /\ Hits(input[j])
              /\ Pattern(input[i].path) # Pattern(input[j].path) ) =>
                called = input[i]

\* C6, amended: of two routes of the same method and distinct patterns that
\* both match the request path, the one that is literal at the first segment
\* where the patterns differ answers, whichever comes first in the
\* configuration: the route whose handler runs is one no matching route is
\* more literal than, and the response, once its handler has returned, is the
\* one configured on it.
Thm_C6 ==
    req # NoReq =>
        \A i, j \in 1..Len(input) :
            ( /\ i # j
              /\ Reaches(input[i]) /\ Reaches(input[j])
              /\ MoreLiteral(input[i].path, input[j].path) ) =>
                /\ called # NoRoute /\ Reaches(called)
                /\ Pattern(called.path) # Pattern(input[j].path)
                /\ \A v \in Routes : Reaches(v) => ~MoreLiteral(v.path, called.path)
                /\ (called.status \in 200..203 /\ Returned) => Configured(called)
                /\ resp.sent => Configured(called)

\* /users/{id} is configured before /users/me, and GET /users/me was answered
\* by the second.
Wit_C6 ==
    /\ Len(input) = 2
    /\ input[1].path = <<"users", "{id}">> /\ input[2].path = <<"users", "me">>
    /\ req = [method |-> "GET", path |-> <<"users", "me">>]
    /\ called = input[2] /\ Configured(input[2])

-----------------------------------------------------------------------------
(* C10 *)

\* C10: whenever --uninstall, --update, --help, --version or a non-empty
\* --download is given, main never reads the configuration file, registers no
\* route and never opens the listener, whatever --path is: its step after the
\* flags are parsed ends the process; main goes on to the configuration only
\* in a run with none of them.
Thm_C10 ==
    /\ [](ExitFlagGiven =>
            /\ pc \in {"flagParse", "flags", "exited"}
            /\ ~fileRead /\ input = <<>> /\ idx = 0 /\ router = {}
            /\ listener = "unopened")
    /\ [](pc \in {"unmarshal", "register", "listen", "serving"} => ~ExitFlagGiven)
    /\ [][(ExitFlagGiven /\ pc = "flags") => pc' = "exited"]_vars

\* A run with --download and --path given has ended.
Wit_C10 ==
    /\ pc = "exited" /\ exit = "0"
    /\ args.download # "" /\ args.path = "cfg.json"
    /\ ~args.uninstall /\ ~args.update /\ ~args.help /\ ~args.version

-----------------------------------------------------------------------------
(* C7 *)

-----------------------------------------------------------------------------
(* C9 *)

\* C9 as stated: the listener is never opened on a configuration with an
\* invalid or a conflicting route.
CE_C9 ==
    listener # "unopened" =>
        /\ \A v \in Routes : ~Refused(v)
        /\ ~Conflicting

\* C9, amended: the listener is opened only after the configuration has been
\* read and parsed and every route registered; an unreadable file, malformed
\* or mistyped JSON (status 1, no route registered) or a route the router
\* refuses (unknown method; a path that does not begin with "/", leaves a "{"
\* unclosed, has a "*" before its end, holds a regexp that does not compile or
\* names a parameter twice: status 2) ends the process with a non-zero status
\* and the listener never opened; the table is not modified once the listener
\* is open. (Two routes of the same method and pattern are no error: see C7.)
Thm_C9 ==
    /\ [](listener # "unopened" =>
            /\ fileRead /\ idx = Len(input)
            /\ \A v \in Routes :
                 /\ ~Refused(v)
                 /\ \E e \in router :
                      e.method = ToUpper(v.method) /\ e.shape = Shape(v.path))
    /\ []((pc = "exited" /\ ~ExitFlagGiven /\ args.download_version = ""
             /\ (\E v \in Routes : Refused(v))) =>
            (exit \in {"1", "2"} /\ listener = "unopened"))
    /\ []((pc = "exited" /\ fileRead /\ idx < Len(input)) =>
            /\ listener = "unopened"
            /\ exit \in {"1", "2"}
            /\ exit = "1" => (idx = 0 /\ router = {})
            /\ exit = "2" => Refused(input[idx + 1]))
    /\ []((pc = "exited" /\ fileRead /\ input = <<>> /\ listener = "unopened") =>
            exit = "1")
    /\ [][listener # "unopened" => router' = router /\ input' = input]_vars

\* A server is up on two routes and has answered a request.
Wit_C9 ==
    /\ listener = "open" /\ Len(input) = 2 /\ Cardinality(router) = 2
    /\ req # NoReq /\ called = input[1]

-----------------------------------------------------------------------------
(* Vocabulary of the update and uninstall claims *)

\* The update flow, the uninstall flow is the one the command line selects.
UpdateRun == args.update /\ ~args.uninstall
UninstallRun == args.uninstall

\* The answer is y or yes, in any letter case.
Affirmative(answer) == answer \in {"y", "Y", "yes", "Yes", "YES"}

\* The flow ran on a platform no release asset is built for.
NoAsset == calls.goos # "" /\ calls.goos \notin {"darwin", "linux", "windows"}

\* The new binary was downloaded completely: HTTP 200, and the temporary file
\* created and written to the end.
Downloaded == calls.get = "200" /\ calls.create = "ok" /\ calls.copy = "ok"

-----------------------------------------------------------------------------
(* C11 *)

\* C11 as stated: a run with --update --download_version=<tag> asks for the
\* release asset of version <tag>, and a run with --update and no version asks
\* for the asset of the latest release (on a platform an asset is built for).
CE_C11 ==
    (pc = "exited" /\ UpdateRun /\ ~NoAsset) =>
        /\ args.download_version # "" => url.release = args.download_version
        /\ (args.download_version = "" /\ args.download_verison = "") =>
              url.release = "latest"

-----------------------------------------------------------------------------
(* C12 *)

\* C12: in the update flow the running binary is replaced only by a completely
\* downloaded new binary (HTTP 200, temporary file created and fully written)
\* and otherwise stays the old one: a failed download or write makes no attempt
\* on it, on Windows no rename and no sudo is attempted, sudo mv is run only
\* after a permission-denied rename and an answer of y or yes (in any letter
\* case), and the binary changes in no step but the one of the update flow.
Thm_C12 ==
    /\ [](UpdateRun =>
            /\ binary \in {"old", "new"}
            /\ binary = "new" =>
                 /\ Downloaded /\ calls.exe = "ok" /\ calls.goos # "windows"
                 /\ \/ calls.rename = "ok" /\ sudo = ""
                    \/ /\ calls.rename = "permission"
                       /\ sudo = "mv" /\ calls.run = "ok"
            /\ ~Downloaded =>
                 (binary = "old" /\ calls.rename = "" /\ sudo = "" /\ asked = <<>>)
            /\ calls.goos = "windows" =>
                 (binary = "old" /\ calls.rename = "" /\ sudo = "" /\ asked = <<>>)
            /\ sudo # "" =>
                 /\ sudo = "mv" /\ calls.rename = "permission"
                 /\ Len(asked) = 1 /\ Affirmative(asked[1])
            /\ (Len(asked) = 1 /\ ~Affirmative(asked[1])) =>
                 (binary = "old" /\ sudo = "" /\ calls.run = ""))
    /\ [][(UpdateRun /\ binary' # binary) =>
            (pc = "flags" /\ pc' = "exited" /\ binary = "old" /\ binary' = "new")]_vars

\* The rename was refused, the user answered Yes, and sudo mv put the new
\* binary in place.
Wit_C12 ==
    /\ pc = "exited" /\ UpdateRun
    /\ Downloaded /\ calls.rename = "permission"
    /\ asked = <<"Yes">> /\ sudo = "mv" /\ binary = "new"

-----------------------------------------------------------------------------
(* C13 *)

\* C13: in the uninstall flow the running binary is removed only after an
\* answer of y or yes (in any letter case) to the uninstall confirmation; sudo
\* rm is run only after a permission-denied os.Remove and a second answer of y
\* or yes; with any other first answer, and always on Windows, nothing is
\* attempted and the binary stays in place.
Thm_C13 ==
    UninstallRun =>
        /\ binary \in {"old", "removed"}
        /\ tmpFile = "absent" /\ url = NoUrl
        /\ binary = "removed" =>
             /\ Len(asked) >= 1 /\ Affirmative(asked[1])
             /\ calls.goos # "windows"
             /\ \/ calls.remove = "ok" /\ sudo = ""
                \/ /\ calls.remove = "permission" /\ sudo = "rm"
                   /\ calls.run = "ok"
        /\ sudo # "" =>
             /\ sudo = "rm" /\ calls.remove = "permission"
             /\ Len(asked) = 2 /\ Affirmative(asked[1]) /\ Affirmative(asked[2])
        /\ calls.remove # "" => (Len(asked) >= 1 /\ Affirmative(asked[1]))
        /\ (Len(asked) >= 1 /\ ~Affirmative(asked[1])) =>
             (binary = "old" /\ calls.remove = "" /\ sudo = "")
        /\ (Len(asked) = 2 /\ ~Affirmative(asked[2])) =>
             (binary = "old" /\ calls.remove = "permission" /\ sudo = "")
        /\ calls.goos = "windows" =>
             (binary = "old" /\ calls.remove = "" /\ sudo = "")

\* os.Remove was refused, and after a second yes sudo rm removed the binary.
Wit_C13 ==
    /\ pc = "exited" /\ UninstallRun
    /\ asked = <<"y", "Yes">> /\ calls.remove = "permission"
    /\ sudo = "rm" /\ binary = "removed"
====
